---- MODULE Spec2Model ----
(***************************************************************************)
(* doc8/main.py: the command-line driver of doc8.  main() merges the       *)
(* command line with the [doc8] section of the configuration file, queues  *)
(* the selected files, runs every check of fetch_checks() on every file,   *)
(* prints the violations that are not ignored, counts them per check and   *)
(* returns 0 or 1.                                                         *)
(*                                                                         *)
(* Python dicts are functions with a domain of strings, lists and deques   *)
(* are sequences.  The bodies of the checks, the file parser and           *)
(* utils.find_files are collaborators: what they return is an input.       *)
(***************************************************************************)
EXTENDS Integers, Sequences, FiniteSets, TLC

\* Bounds of the model.
MaxLines == 2      \* lines of the longest file
MaxEmit  == 2      \* reports the check bodies yield in one run

\* main.py:52-53
FILE_PATTERNS == <<".rst", ".txt">>
MAX_LINE_LENGTH == 79

VARIABLES
    \* inputs of the run
    cli,            \* options given on the command line (dest |-> value)
    conf,           \* the configuration file: was one read, its [doc8] section
    found,          \* what utils.find_files yields
    addons,         \* the objects the extension manager loads
    py3,            \* does a class have __qualname__ (PEP 3155)
    \* state of main()
    pc, args, cfg, files, files_ignored, files_selected, scan_i,
    ignoreables, error_counts, f, checks, ci, line_num, cur,
    output,         \* the violation lines printed
    summary, rc,
    \* history
    origin,         \* for each printed line: file position and check index
    calls,          \* the report_iter invocations made
    skips,          \* the (file, check) pairs skipped, with the reason
    emitted,        \* reports yielded so far
    discarded       \* reports dropped because their code is ignored

inputs == <<cli, conf, found, addons, py3>>
locals == <<pc, args, cfg, files, files_ignored, files_selected, scan_i,
            ignoreables, error_counts, f, checks, ci, line_num, cur>>
locals_but_pc == <<args, cfg, files, files_ignored, files_selected, scan_i,
                   ignoreables, error_counts, f, checks, ci, line_num, cur>>
outs   == <<output, summary, rc>>
hist   == <<origin, calls, skips, emitted, discarded>>
vars   == <<inputs, locals, outs, hist>>

----------------------------------------------------------------------------
\* Python dict operations.

EmptyDict == [k \in {} |-> 0]

\* d.update(e)
Update(d, e) ==
    [k \in DOMAIN d \cup DOMAIN e |-> IF k \in DOMAIN e THEN e[k] ELSE d[k]]

\* d after d.pop(k, default)
Pop(d, k) == [x \in DOMAIN d \ {k} |-> d[x]]

\* d.get(k, default), and the value d.pop(k, default) returns
Get(d, k, default) == IF k \in DOMAIN d THEN d[k] ELSE default

RECURSIVE SumSeq(_)
SumSeq(s) == IF s = <<>> THEN 0 ELSE Head(s) + SumSeq(Tail(s))

----------------------------------------------------------------------------
\* str.strip() on the items that occur in the inputs.
Strip(s) ==
    CASE s = " D003" -> "D003"
      [] s = "D004 " -> "D004"
      [] s = " .md"  -> ".md"
      [] s = " "     -> ""
      [] OTHER       -> s

\* main.py:62-63.  text is given as text.split(","), a sequence of items.
split_set_type(text) ==
    {Strip(text[i]) : i \in {j \in DOMAIN text : Strip(text[j]) # ""}}

\* main.py:66-70
merge_sets(sets) == UNION {sets[i] : i \in DOMAIN sets}

\* RawConfigParser.getint / getboolean on the values that occur in the inputs.
getint(s) ==
    CASE s = "79" -> 79 [] s = "100" -> 100 [] s = "120" -> 120

getboolean(s) ==
    CASE s \in {"1", "yes", "true", "on"}  -> TRUE
      [] s \in {"0", "no", "false", "off"} -> FALSE

\* The list comprehension of main.py:115.
StripItems(items) ==
    LET kept == SelectSeq(items, LAMBDA s : Strip(s) # "")
    IN  [i \in DOMAIN kept |-> Strip(kept[i])]

\* main.py:73-120.  c.read: some configuration file was read; c.doc8: the
\* options of its [doc8] section (absent section: no options).
extract_config(c) ==
    IF ~c.read THEN EmptyDict
    ELSE
      LET sec == c.doc8
          has(o) == o \in DOMAIN sec
          keys == {k \in {"max_line_length", "ignore", "ignore_path",
                          "allow_long_titles", "sphinx", "verbose",
                          "extension"} :
                     CASE k = "max_line_length"   -> has("max-line-length")
                       [] k = "ignore"            -> has("ignore")
                       [] k = "ignore_path"       -> has("ignore_path")
                       [] k = "allow_long_titles" -> has("allow-long-titles")
                       [] k = "sphinx"            -> has("sphinx")
                       [] k = "verbose"           -> has("verbose")
                       [] k = "extension"         ->
                            /\ has("extensions")
                            /\ StripItems(sec["extensions"]) # <<>>}
      IN [k \in keys |->
            CASE k = "max_line_length"   -> getint(sec["max-line-length"])
              [] k = "ignore"            -> split_set_type(sec["ignore"])
              [] k = "ignore_path"       -> split_set_type(sec["ignore_path"])
              [] k = "allow_long_titles" -> getboolean(sec["allow-long-titles"])
              [] k = "sphinx"            -> getboolean(sec["sphinx"])
              [] k = "verbose"           -> getboolean(sec["verbose"])
              [] k = "extension"         -> StripItems(sec["extensions"])]

\* The defaults of the argparse arguments, main.py:157-191.
ArgDefaults ==
    [k \in {"paths", "config", "allow_long_titles", "ignore", "sphinx",
            "ignore_path", "max_line_length", "extension", "verbose",
            "version"} |->
        CASE k = "paths"             -> <<"cwd">>
          [] k = "config"            -> <<>>
          [] k = "allow_long_titles" -> FALSE
          [] k = "ignore"            -> <<>>
          [] k = "sphinx"            -> TRUE
          [] k = "ignore_path"       -> <<>>
          [] k = "max_line_length"   -> MAX_LINE_LENGTH
          [] k = "extension"         -> FILE_PATTERNS
          [] k = "verbose"           -> FALSE
          [] k = "version"           -> FALSE]

\* vars(parser.parse_args()), main.py:192.  c holds the options that were
\* given: a store_true flag as TRUE, --no-sphinx as sphinx |-> FALSE, an
\* append option as the list of its occurrences.
parse_args(c) ==
    [k \in DOMAIN ArgDefaults |->
        IF k \notin DOMAIN c THEN ArgDefaults[k]
        ELSE CASE k = "ignore" ->
                    [i \in DOMAIN c[k] |-> split_set_type(c[k][i])]
               [] k = "extension" -> FILE_PATTERNS \o c[k]
               [] OTHER -> c[k]]

\* The elements of a set in the order list.extend() iterates over it (some
\* order; only find_files reads the result).
RECURSIVE ListOf(_)
ListOf(S) ==
    IF S = {} THEN <<>>
    ELSE LET x == CHOOSE y \in S : TRUE IN <<x>> \o ListOf(S \ {x})

\* main.py:196-203: the merge of the command line and the configuration file.
merge_config(a, c) ==
    LET a1 == [a EXCEPT !["ignore"] = merge_sets(@)]
        a2 == [a1 EXCEPT !["ignore"] = @ \cup Get(c, "ignore", {})]
        c2 == Pop(c, "ignore")
        a3 == IF "sphinx" \in DOMAIN c2
              THEN [a2 EXCEPT !["sphinx"] = c2["sphinx"]] ELSE a2
        c3 == Pop(c2, "sphinx")
        a4 == [a3 EXCEPT !["extension"] = @ \o Get(c3, "extension", <<>>)]
        c4 == Pop(c3, "extension")
        a5 == [a4 EXCEPT !["ignore_path"] =
                  @ \o ListOf(Get(c4, "ignore_path", {}))]
        c5 == Pop(c4, "ignore_path")
    IN  Update(a5, c5)

\* What the pops of main.py:198-202 leave of cfg.
popped_config(c) ==
    Pop(Pop(Pop(Pop(c, "ignore"), "sphinx"), "extension"), "ignore_path")

----------------------------------------------------------------------------
\* The checks.  A check object is described by its class (module, name), its
\* kind (which of checks.ContentCheck / checks.LineCheck it is an instance
\* of, "other" for neither), its optional REPORTS and EXT_MATCHER attributes
\* (EXT: the extensions the matcher matches) and the codes its body can yield.

Check(module, name, kind, has_reports, reports, has_ext, ext, emits) ==
    [module |-> module, name |-> name, kind |-> kind,
     has_reports |-> has_reports, REPORTS |-> reports,
     has_ext |-> has_ext, EXT |-> ext, emits |-> emits]

\* The built-in classes of doc8/checks.py: which base class each derives
\* from and the code its REPORTS holds.
BuiltinKind(name) ==
    IF name = "CheckValidity" THEN "content" ELSE "line"

BuiltinCode(name) ==
    CASE name = "CheckValidity"           -> "D000"
      [] name = "CheckMaxLineLength"      -> "D001"
      [] name = "CheckTrailingWhitespace" -> "D002"
      [] name = "CheckIndentationNoTab"   -> "D003"
      [] name = "CheckCarriageReturn"     -> "D004"

Builtin(name) ==
    Check("doc8.checks", name, BuiltinKind(name), TRUE, {BuiltinCode(name)},
          FALSE, {}, {BuiltinCode(name)})

\* The fixed list of main.py:124-130.
BaseChecks ==
    << Builtin("CheckValidity"),
       Builtin("CheckTrailingWhitespace"),
       Builtin("CheckIndentationNoTab"),
       Builtin("CheckCarriageReturn"),
       Builtin("CheckMaxLineLength") >>

\* Plugins of the namespace doc8.extension.check.
PluginLoose ==      \* no REPORTS, understands .rst only
    Check("plug_a", "CheckStyle", "line", FALSE, {}, TRUE, {".rst"},
          {"X001", "D002"})
PluginTxt ==        \* a class of the same name in another module
    Check("plug_b", "CheckStyle", "content", TRUE, {"X001", "X002"},
          TRUE, {".txt"}, {"X001", "X002"})
PluginBogus ==      \* neither a ContentCheck nor a LineCheck
    Check("plug_c", "Bogus", "other", TRUE, {"X001"}, TRUE, {".rst"}, {})

\* main.py:123-139
fetch_checks(a, loaded) == BaseChecks \o loaded

\* main.py:231-236: __qualname__ of a top-level class is its bare name.
check_name(c, qualname) ==
    IF qualname THEN c.name ELSE c.module \o "." \o c.name

\* The keys the checks above can have, in the order sorted() gives them.
KeyOrder ==
    << "Bogus", "CheckCarriageReturn", "CheckIndentationNoTab",
       "CheckMaxLineLength", "CheckStyle", "CheckTrailingWhitespace",
       "CheckValidity",
       "doc8.checks.CheckCarriageReturn", "doc8.checks.CheckIndentationNoTab",
       "doc8.checks.CheckMaxLineLength", "doc8.checks.CheckTrailingWhitespace",
       "doc8.checks.CheckValidity",
       "plug_a.CheckStyle", "plug_b.CheckStyle", "plug_c.Bogus" >>

\* sorted(six.iterkeys(d)), main.py:295
sorted(d) == SelectSeq(KeyOrder, LAMBDA k : k \in DOMAIN d)

\* sum(six.itervalues(d)), main.py:288
sum_values(d) == LET ks == sorted(d) IN SumSeq([i \in DOMAIN ks |-> d[ks[i]]])

\* Mutant of setdefault: the entry is not created.
setdefault_absent(d, k) == d

\* d.setdefault(k, 0), main.py:237
setdefault(d, k) == IF k \in DOMAIN d THEN d ELSE Update(d, k :> 0)

\* Mutant of ext_match: every extension matches.
ext_match_any(c, file) == TRUE

\* main.py:243
ext_match(c, file) == file.extension \in c.EXT

\* Mutant of only_ignoreable: one ignored code is enough.
some_ignoreable(c, ign) == c.REPORTS \cap ign # {}

\* main.py:250-255: not (set(c.REPORTS) - ignoreables)
only_ignoreable(c, ign) == c.REPORTS \ ign = {}

\* Mutant of exit_status: the number of errors is returned.
exit_status_total(total_errors) == total_errors

\* main.py:298-301
exit_status(total_errors) == IF total_errors # 0 THEN 1 ELSE 0

\* A parsed file or an ignored path, as find_files / file_parser.parse give it.
File(name, ext, n, ign) ==
    [filename |-> name, extension |-> ext, nlines |-> n, ignoreable |-> ign]

NoFile == File("", "", 0, FALSE)
NoReport == [line |-> 0, code |-> ""]
NoSummary == [printed |-> FALSE]

----------------------------------------------------------------------------
\* The inputs.

NoConf == [read |-> FALSE, doc8 |-> EmptyDict]

CliInputs ==
    { EmptyDict,
      "ignore" :> << <<"D002", " D003">> >>,
      "version" :> TRUE }

ConfInputs ==
    { NoConf,
      [read |-> TRUE,
       doc8 |-> ("ignore" :> <<"D004 ", " ", "X001">> @@ "verbose" :> "true")] }

FoundInputs ==
    { <<>>,
      << File("b.txt", ".txt", 1, FALSE) >>,
      << File("b.txt", ".txt", 1, FALSE), File("skip.rst", ".rst", 1, TRUE),
         File("a.rst", ".rst", MaxLines, FALSE) >> }

AddonInputs ==
    { <<>>, <<PluginLoose, PluginTxt>>, <<PluginBogus>> }

Start ==
    /\ pc = "parse_args"
    /\ args = EmptyDict /\ cfg = EmptyDict
    /\ files = <<>> /\ files_ignored = 0 /\ files_selected = 0 /\ scan_i = 0
    /\ ignoreables = {} /\ error_counts = EmptyDict
    /\ f = NoFile /\ checks = <<>> /\ ci = 0 /\ line_num = 0 /\ cur = NoReport
    /\ output = <<>> /\ summary = NoSummary /\ rc = -1
    /\ origin = <<>> /\ calls = <<>> /\ skips = {} /\ emitted = 0
    /\ discarded = 0

Init ==
    /\ cli \in CliInputs
    /\ conf \in ConfInputs
    /\ found \in FoundInputs
    /\ addons \in AddonInputs
    /\ py3 \in BOOLEAN
    /\ Start

----------------------------------------------------------------------------
\* main(), step by step.

\* main.py:192-195
ParseArgs ==
    /\ pc = "parse_args"
    /\ args' = parse_args(cli)
    /\ IF args'["version"]
       THEN pc' = "version_exit" /\ rc' = 0
       ELSE pc' = "extract" /\ rc' = rc
    /\ UNCHANGED <<inputs, cfg, files, files_ignored, files_selected, scan_i,
                   ignoreables, error_counts, f, checks, ci, line_num, cur,
                   output, summary, hist>>

\* main.py:197
ExtractConfig ==
    /\ pc = "extract"
    /\ cfg' = extract_config(conf)
    /\ pc' = "merge"
    /\ UNCHANGED <<inputs, args, files, files_ignored, files_selected, scan_i,
                   ignoreables, error_counts, f, checks, ci, line_num, cur,
                   outs, hist>>

\* main.py:196-204
MergeConfig ==
    /\ pc = "merge"
    /\ args' = merge_config(args, cfg)
    /\ cfg' = popped_config(cfg)
    /\ pc' = "scan"
    /\ UNCHANGED <<inputs, files, files_ignored, files_selected, scan_i,
                   ignoreables, error_counts, f, checks, ci, line_num, cur,
                   outs, hist>>

\* main.py:213-222, one item of file_iter
ScanFile ==
    /\ pc = "scan"
    /\ scan_i < Len(found)
    /\ scan_i' = scan_i + 1
    /\ LET item == found[scan_i + 1] IN
         IF item.ignoreable
         THEN /\ files_ignored' = files_ignored + 1
              /\ UNCHANGED <<files, files_selected>>
         ELSE /\ files_selected' = files_selected + 1
              /\ files' = Append(files, item)
              /\ UNCHANGED files_ignored
    /\ UNCHANGED <<inputs, pc, args, cfg, ignoreables, error_counts, f, checks,
                   ci, line_num, cur, outs, hist>>

\* main.py:208-212 (the pops) and 224-225, once file_iter is exhausted
ScanDone ==
    /\ pc = "scan"
    /\ scan_i = Len(found)
    /\ ignoreables' = args["ignore"]
    /\ args' = Pop(Pop(Pop(Pop(args, "ignore_path"), "paths"), "extension"),
                   "ignore")
    /\ error_counts' = EmptyDict
    /\ pc' = "while"
    /\ UNCHANGED <<inputs, cfg, files, files_ignored, files_selected, scan_i,
                   f, checks, ci, line_num, cur, outs, hist>>

\* Mutant of NextFile: the deque is popped from the right.
NextFileFromRight ==
    /\ pc = "while"
    /\ files # <<>>
    /\ f' = files[Len(files)]
    /\ files' = SubSeq(files, 1, Len(files) - 1)
    /\ checks' = fetch_checks(args, addons)
    /\ ci' = 1
    /\ pc' = "for"
    /\ UNCHANGED <<inputs, args, cfg, files_ignored, files_selected, scan_i,
                   ignoreables, error_counts, line_num, cur, outs, hist>>

\* main.py:226-230: the next file of the deque and its list of checks
NextFile ==
    /\ pc = "while"
    /\ files # <<>>
    /\ f' = Head(files)
    /\ files' = Tail(files)
    /\ checks' = fetch_checks(args, addons)
    /\ ci' = 1
    /\ pc' = "for"
    /\ UNCHANGED <<inputs, args, cfg, files_ignored, files_selected, scan_i,
                   ignoreables, error_counts, line_num, cur, outs, hist>>

\* the for loop of main.py:230 is exhausted: back to the while
ChecksDone ==
    /\ pc = "for"
    /\ ci > Len(checks)
    /\ pc' = "while"
    /\ UNCHANGED <<inputs, args, cfg, files, files_ignored, files_selected,
                   scan_i, ignoreables, error_counts, f, checks, ci, line_num,
                   cur, outs, hist>>

\* main.py:231-237
Register ==
    /\ pc = "for"
    /\ ci <= Len(checks)
    /\ error_counts' = setdefault(error_counts, check_name(checks[ci], py3))
    /\ pc' = "ext"
    /\ UNCHANGED <<inputs, args, cfg, files, files_ignored, files_selected,
                   scan_i, ignoreables, f, checks, ci, line_num, cur, outs,
                   hist>>

\* The position of the current file among the selected ones.
fpos == files_selected - Len(files)

\* main.py:238-248
ExtGate ==
    /\ pc = "ext"
    /\ IF checks[ci].has_ext /\ ~ext_match(checks[ci], f)
       THEN /\ skips' = skips \cup {<<fpos, ci, "extension">>}
            /\ ci' = ci + 1
            /\ pc' = "for"
       ELSE /\ pc' = "reports"
            /\ UNCHANGED <<skips, ci>>
    /\ UNCHANGED <<inputs, args, cfg, files, files_ignored, files_selected,
                   scan_i, ignoreables, error_counts, f, checks, line_num, cur,
                   outs, origin, calls, emitted, discarded>>

\* main.py:249-259
ReportsGate ==
    /\ pc = "reports"
    /\ IF checks[ci].has_reports /\ only_ignoreable(checks[ci], ignoreables)
       THEN /\ skips' = skips \cup {<<fpos, ci, "ignored">>}
            /\ ci' = ci + 1
            /\ pc' = "for"
       ELSE /\ pc' = "dispatch"
            /\ UNCHANGED <<skips, ci>>
    /\ UNCHANGED <<inputs, args, cfg, files, files_ignored, files_selected,
                   scan_i, ignoreables, error_counts, f, checks, line_num, cur,
                   outs, origin, calls, emitted, discarded>>

\* main.py:262-263: c.report_iter(f)
DispatchContent ==
    /\ pc = "dispatch"
    /\ checks[ci].kind = "content"
    /\ calls' = Append(calls, <<fpos, ci, 0>>)
    /\ pc' = "iter"
    /\ UNCHANGED <<inputs, args, cfg, files, files_ignored, files_selected,
                   scan_i, ignoreables, error_counts, f, checks, ci, line_num,
                   cur, outs, origin, skips, emitted, discarded>>

\* main.py:273-274: enumerate(f.lines_iter(), 1)
DispatchLine ==
    /\ pc = "dispatch"
    /\ checks[ci].kind = "line"
    /\ line_num' = 0
    /\ pc' = "lines"
    /\ UNCHANGED <<inputs, args, cfg, files, files_ignored, files_selected,
                   scan_i, ignoreables, error_counts, f, checks, ci, cur, outs,
                   hist>>

\* Mutant of RaiseTypeError: a check of unknown kind is passed over.
SkipUnknownKind ==
    /\ pc = "dispatch"
    /\ checks[ci].kind \notin {"content", "line"}
    /\ ci' = ci + 1
    /\ pc' = "for"
    /\ UNCHANGED <<inputs, args, cfg, files, files_ignored, files_selected,
                   scan_i, ignoreables, error_counts, f, checks, line_num,
                   cur, outs, hist>>

\* main.py:285-287
RaiseTypeError ==
    /\ pc = "dispatch"
    /\ checks[ci].kind \notin {"content", "line"}
    /\ pc' = "raised"
    /\ UNCHANGED <<inputs, args, cfg, files, files_ignored, files_selected,
                   scan_i, ignoreables, error_counts, f, checks, ci, line_num,
                   cur, outs, hist>>

\* main.py:274-275: the next line and c.report_iter(line)
NextLine ==
    /\ pc = "lines"
    /\ line_num < f.nlines
    /\ line_num' = line_num + 1
    /\ calls' = Append(calls, <<fpos, ci, line_num + 1>>)
    /\ pc' = "iter"
    /\ UNCHANGED <<inputs, args, cfg, files, files_ignored, files_selected,
                   scan_i, ignoreables, error_counts, f, checks, ci, cur, outs,
                   origin, skips, emitted, discarded>>

\* main.py:274: the lines are exhausted
LinesDone ==
    /\ pc = "lines"
    /\ line_num = f.nlines
    /\ ci' = ci + 1
    /\ pc' = "for"
    /\ UNCHANGED <<inputs, args, cfg, files, files_ignored, files_selected,
                   scan_i, ignoreables, error_counts, f, checks, line_num, cur,
                   outs, hist>>

\* The line numbers a ContentCheck can report for a file (0: unknown).
ContentLines(file) == {0, file.nlines}

\* main.py:263 / 275: report_iter yields a report
Yield ==
    /\ pc = "iter"
    /\ emitted < MaxEmit
    /\ \E code \in checks[ci].emits :
       \E ln \in IF checks[ci].kind = "content" THEN ContentLines(f)
                 ELSE {line_num} :
          cur' = [line |-> ln, code |-> code]
    /\ emitted' = emitted + 1
    /\ pc' = "filter"
    /\ UNCHANGED <<inputs, args, cfg, files, files_ignored, files_selected,
                   scan_i, ignoreables, error_counts, f, checks, ci, line_num,
                   outs, origin, calls, skips, discarded>>

\* Mutant of IterDone: the check is left after the first line.
IterDoneLeavesCheck ==
    /\ pc = "iter"
    /\ ci' = ci + 1
    /\ pc' = "for"
    /\ UNCHANGED <<inputs, args, cfg, files, files_ignored, files_selected,
                   scan_i, ignoreables, error_counts, f, checks, line_num, cur,
                   outs, hist>>

\* main.py:263 / 275: report_iter is exhausted
IterDone ==
    /\ pc = "iter"
    /\ IF checks[ci].kind = "content"
       THEN ci' = ci + 1 /\ pc' = "for"
       ELSE ci' = ci /\ pc' = "lines"
    /\ UNCHANGED <<inputs, args, cfg, files, files_ignored, files_selected,
                   scan_i, ignoreables, error_counts, f, checks, line_num, cur,
                   outs, hist>>

\* Mutant of Report: the code is not looked up in ignoreables.
ReportUnfiltered ==
    /\ pc = "filter"
    /\ output' = Append(output,
                        [indent |-> Get(args, "verbose", FALSE),
                         filename |-> f.filename, line |-> cur.line,
                         code |-> cur.code])
    /\ origin' = Append(origin, [fpos |-> fpos, ci |-> ci])
    /\ pc' = "count"
    /\ UNCHANGED <<inputs, args, cfg, files, files_ignored, files_selected,
                   scan_i, ignoreables, error_counts, f, checks, ci, line_num,
                   cur, summary, rc, calls, skips, emitted, discarded>>

\* main.py:264-271 / 276-283: drop an ignored code, print the others
Report ==
    /\ pc = "filter"
    /\ IF cur.code \in ignoreables
       THEN /\ discarded' = discarded + 1
            /\ pc' = "iter"
            /\ UNCHANGED <<output, origin>>
       ELSE /\ output' = Append(output,
                           [indent |-> Get(args, "verbose", FALSE),
                            filename |-> f.filename, line |-> cur.line,
                            code |-> cur.code])
            /\ origin' = Append(origin, [fpos |-> fpos, ci |-> ci])
            /\ pc' = "count"
            /\ UNCHANGED discarded
    /\ UNCHANGED <<inputs, args, cfg, files, files_ignored, files_selected,
                   scan_i, ignoreables, error_counts, f, checks, ci, line_num,
                   cur, summary, rc, calls, skips, emitted>>

\* main.py:272 / 284
Count ==
    /\ pc = "count"
    /\ error_counts' =
         [error_counts EXCEPT ![check_name(checks[ci], py3)] = @ + 1]
    /\ pc' = "iter"
    /\ UNCHANGED <<inputs, args, cfg, files, files_ignored, files_selected,
                   scan_i, ignoreables, f, checks, ci, line_num, cur, outs,
                   hist>>

\* main.py:288-301
Summary ==
    /\ pc = "while"
    /\ files = <<>>
    /\ LET total_errors == sum_values(error_counts)
           names == sorted(error_counts)
       IN /\ summary' =
               [printed |-> TRUE, scanned |-> files_selected,
                ignored |-> files_ignored, total |-> total_errors,
                detail |-> [i \in DOMAIN names |->
                               <<names[i], error_counts[names[i]]>>]]
          /\ rc' = exit_status(total_errors)
    /\ pc' = "done"
    /\ UNCHANGED <<inputs, locals_but_pc, output, hist>>

----------------------------------------------------------------------------
Next ==
    \/ ParseArgs \/ ExtractConfig \/ MergeConfig
    \/ ScanFile \/ ScanDone
    \/ NextFile \/ ChecksDone \/ Register \/ ExtGate \/ ReportsGate
    \/ DispatchContent \/ DispatchLine \/ RaiseTypeError
    \/ NextLine \/ LinesDone \/ Yield \/ IterDone \/ Report \/ Count
    \/ Summary

Spec == Init /\ [][Next]_vars

FairSpec == Spec /\ WF_vars(Next)

----------------------------------------------------------------------------
\* The merge of the configuration alone (main.py:192-204), over every
\* combination of the options given on the command line and in the file.

Options == {"max_line_length", "allow_long_titles", "sphinx", "verbose"}

\* The name of an option in the [doc8] section, main.py:87-109.
IniName(k) ==
    CASE k = "max_line_length"   -> "max-line-length"
      [] k = "allow_long_titles" -> "allow-long-titles"
      [] k = "sphinx"            -> "sphinx"
      [] k = "verbose"           -> "verbose"

CliConfigInputs ==
    { [k \in D |-> CASE k = "max_line_length"   -> m
                     [] k = "allow_long_titles" -> TRUE
                     [] k = "sphinx"            -> FALSE
                     [] k = "verbose"           -> TRUE
                     [] k = "ignore"            -> << <<"D002", " D003">> >>
                     [] k = "extension"         -> <<".md">>] :
        D \in SUBSET (Options \cup {"ignore", "extension"}), m \in {100, 120} }

ConfConfigInputs ==
    {NoConf} \cup
    { [read |-> TRUE,
       doc8 |-> [o \in D |-> CASE o = "max-line-length" -> m
                               [] o = "ignore"          -> <<"D004 ", " ">>
                               [] o = "extensions"      -> <<" .md", " ">>
                               [] o = "ignore_path"     -> <<"build">>
                               [] OTHER                 -> b]] :
        D \in SUBSET {"max-line-length", "allow-long-titles", "sphinx",
                      "verbose", "ignore", "extensions", "ignore_path"},
        m \in {"79", "120"}, b \in {"yes", "false"} }

InitConfig ==
    /\ cli \in CliConfigInputs
    /\ conf \in ConfConfigInputs
    /\ found = <<>>
    /\ addons = <<>>
    /\ py3 = TRUE
    /\ Start

NextConfig == ParseArgs \/ ExtractConfig \/ MergeConfig

SpecConfig == InitConfig /\ [][NextConfig]_vars

----------------------------------------------------------------------------
\* What the properties are stated in.

\* The ignore set as configured: the --ignore options united with the
\* ignore option of the configuration file.
ConfiguredIgnore ==
    LET given == IF "ignore" \in DOMAIN cli THEN cli["ignore"] ELSE <<>>
    IN  UNION {split_set_type(given[i]) : i \in DOMAIN given}
        \cup (IF conf.read /\ "ignore" \in DOMAIN conf.doc8
              THEN split_set_type(conf.doc8["ignore"]) ELSE {})

\* The selected files, in the order find_files discovers them.
Selected == SelectSeq(found, LAMBDA x : ~x.ignoreable)

KnownKinds == {"content", "line"}

ExtensionOk(c, file) == c.has_ext => file.extension \in c.EXT
ReportsOk(c) == c.has_reports => c.REPORTS \ ConfiguredIgnore # {}
Applicable(c, file) == ExtensionOk(c, file) /\ ReportsOk(c)

SameClass(c, d) == c.module = d.module /\ c.name = d.name

\* The printed lines that come from checks of the class of c.
ReportedFor(c) ==
    Cardinality({j \in DOMAIN origin : SameClass(checks[origin[j].ci], c)})

\* Where main() holds a check whose entry must exist: past main.py:237.
Registered == {"ext", "reports", "dispatch", "lines", "iter", "filter",
               "count", "raised"}

\* C1: no violation whose code is in the configured ignore set is printed,
\* and none is counted: every count stands for a printed line, and every
\* report yielded is either printed or discarded.
C1_IgnoredNeverReported ==
    /\ \A i \in DOMAIN output : output[i].code \notin ConfiguredIgnore
    /\ sum_values(error_counts) <= Len(output)
    /\ Len(output) + discarded <= emitted

C1_Witness ==
    /\ pc = "done"
    /\ discarded > 0
    /\ Len(output) > 0

\* C2: a check whose declared REPORTS are all ignored is never invoked; a
\* check is skipped for its codes only if it declares REPORTS and all of
\* them are ignored.
C2_ReportsGate ==
    /\ \A call \in {calls[i] : i \in DOMAIN calls} : ReportsOk(checks[call[2]])
    /\ \A s \in skips :
          s[3] = "ignored" =>
             /\ checks[s[2]].has_reports
             /\ checks[s[2]].REPORTS \subseteq ConfiguredIgnore

C2_Witness ==
    /\ pc = "done"
    /\ ConfiguredIgnore # {}
    /\ \E s \in skips : s[3] = "ignored"
    /\ \E i \in DOMAIN calls : ~checks[calls[i][2]].has_reports
    /\ \E i \in DOMAIN calls :
          /\ checks[calls[i][2]].has_reports
          /\ checks[calls[i][2]].REPORTS \cap ConfiguredIgnore # {}

\* C3: a check with an extension matcher is never invoked on, and never
\* reports for, a file whose extension the matcher does not match; a check
\* is skipped for the extension only if it has a matcher that does not match.
C3_ExtensionGate ==
    /\ \A i \in DOMAIN calls :
          ExtensionOk(checks[calls[i][2]], Selected[calls[i][1]])
    /\ \A j \in DOMAIN origin :
          ExtensionOk(checks[origin[j].ci], Selected[origin[j].fpos])
    /\ \A s \in skips :
          s[3] = "extension" =>
             /\ checks[s[2]].has_ext
             /\ Selected[s[1]].extension \notin checks[s[2]].EXT

C3_Witness ==
    /\ pc = "done"
    /\ \E s \in skips : s[3] = "extension" /\ Selected[s[1]].extension = ".txt"
    /\ \E s \in skips : s[3] = "extension" /\ Selected[s[1]].extension = ".rst"
    /\ \E i, j \in DOMAIN calls :
          /\ calls[i][2] = calls[j][2]
          /\ Selected[calls[i][1]].extension = ".txt"
          /\ Selected[calls[j][1]].extension = ".rst"

\* C4: a run that reaches the summary returns 0 when the sum of the counts
\* is 0 and 1 otherwise; nothing else is ever returned.
C4_ExitStatus ==
    /\ pc = "done" =>
          /\ rc \in {0, 1}
          /\ rc = 0 <=> sum_values(error_counts) = 0
          /\ summary.total = sum_values(error_counts)
    /\ pc = "version_exit" => rc = 0
    /\ pc \notin {"done", "version_exit"} => rc = -1

C4_Witness ==
    /\ pc = "done"
    /\ rc = 1
    /\ sum_values(error_counts) = MaxEmit

\* C5: the counts are naturals, a line is printed before it is counted, at
\* the summary the total is the number of printed lines, and the count under
\* the key of a check is the number of lines printed for that check.
C5_CountAccounting ==
    /\ \A k \in DOMAIN error_counts : error_counts[k] \in Nat
    /\ sum_values(error_counts) <= Len(output)
    /\ pc = "done" =>
          /\ summary.total = Len(output)
          /\ \A i \in DOMAIN checks :
                error_counts[check_name(checks[i], py3)]
                   = ReportedFor(checks[i])

\* C6: the key of a check is in error_counts from before the applicability
\* decision on, and the summary lists every check that was fetched, those
\* that never reported and those that were skipped for every file included.
C6_EntryForEveryCheck ==
    /\ pc \in Registered =>
          check_name(checks[ci], py3) \in DOMAIN error_counts
    /\ \A s \in skips :
          check_name(checks[s[2]], py3) \in DOMAIN error_counts
    /\ pc = "done" =>
          \A i \in DOMAIN checks :
             LET k == check_name(checks[i], py3) IN
                /\ k \in DOMAIN error_counts
                /\ \E j \in DOMAIN summary.detail :
                      summary.detail[j] = <<k, error_counts[k]>>

C6_Witness ==
    /\ pc = "done"
    /\ files_selected > 0
    /\ \E i \in DOMAIN checks :
          /\ \A q \in 1..files_selected : <<q, i, "extension">> \in skips
          /\ error_counts[check_name(checks[i], py3)] = 0
    /\ \E i \in DOMAIN checks :
          /\ \A q \in 1..files_selected : <<q, i, "ignored">> \in skips
          /\ error_counts[check_name(checks[i], py3)] = 0

\* C7 as stated: once the registry has returned a check that is neither a
\* ContentCheck nor a LineCheck, the run never produces the summary.
C7_UnknownKindNeverSummary ==
    (\E i \in DOMAIN checks : checks[i].kind \notin KnownKinds) =>
        /\ pc # "done"
        /\ ~summary.printed

\* C7 amended: the run raises when, and only when, dispatch reaches a check
\* of unknown kind, that is for the first selected file the check is
\* applicable to; it then has no summary and no exit status, and a run that
\* reaches the summary had no such (file, check) pair.
C7_AbortOnDispatch ==
    /\ pc = "raised" =>
          /\ rc = -1
          /\ ~summary.printed
          /\ checks[ci].kind \notin KnownKinds
          /\ Applicable(checks[ci], f)
    /\ pc = "dispatch" /\ checks[ci].kind \notin KnownKinds =>
          \A q \in 1..(fpos - 1) : ~Applicable(checks[ci], Selected[q])
    /\ \A i \in DOMAIN calls : checks[calls[i][2]].kind \in KnownKinds
    /\ pc = "done" =>
          \A q \in 1..files_selected : \A i \in DOMAIN checks :
             checks[i].kind \notin KnownKinds
                => ~Applicable(checks[i], Selected[q])

C7_Witness ==
    /\ pc = "raised"
    /\ Len(output) > 0

\* C8: the printed lines follow the order of the selected files, within a
\* file the order of the registry (the five built-ins, then the plugins as
\* loaded), within a LineCheck the order of the lines.
C8_ReportOrder ==
    /\ \A i \in DOMAIN output :
          output[i].filename = Selected[origin[i].fpos].filename
    /\ \A i, j \in DOMAIN output :
          i < j =>
             /\ origin[i].fpos <= origin[j].fpos
             /\ origin[i].fpos = origin[j].fpos => origin[i].ci <= origin[j].ci
             /\ origin[i] = origin[j] /\ checks[origin[i].ci].kind = "line"
                   => output[i].line <= output[j].line
    /\ checks # <<>> =>
          /\ [i \in 1..5 |-> checks[i].name] =
                << "CheckValidity", "CheckTrailingWhitespace",
                   "CheckIndentationNoTab", "CheckCarriageReturn",
                   "CheckMaxLineLength" >>
          /\ SubSeq(checks, 6, Len(checks)) = addons

C8_Witness ==
    /\ pc = "done"
    /\ Len(output) = 2
    /\ origin[1].fpos < origin[2].fpos
    /\ output[1].filename = "b.txt"
    /\ output[2].filename = "a.rst"

\* C9 as stated: an option given both on the command line and in the
\* configuration file has, after the merge, the value of the command line.
C9_CommandLineWins ==
    pc = "scan" =>
       \A k \in Options :
          (k \in DOMAIN cli /\ conf.read /\ IniName(k) \in DOMAIN conf.doc8)
             => args[k] = cli[k]

\* The report_iter invocations of a complete run: for every selected file
\* in order and every applicable check in order, one with the file for a
\* ContentCheck, one per line 1..n for a LineCheck.
CallsOf(q, i) ==
    IF ~Applicable(checks[i], Selected[q]) THEN <<>>
    ELSE IF checks[i].kind = "content" THEN << <<q, i, 0>> >>
    ELSE [n \in 1..Selected[q].nlines |-> <<q, i, n>>]

RECURSIVE CallsFrom(_, _)
CallsFrom(q, i) ==
    IF q > Len(Selected) THEN <<>>
    ELSE IF i > Len(checks) THEN CallsFrom(q + 1, 1)
    ELSE CallsOf(q, i) \o CallsFrom(q, i + 1)

Completed ==
    /\ pc = "done"
    /\ files = <<>>
    /\ summary.printed
    /\ calls = CallsFrom(1, 1)

\* C10: a run whose checks are all ContentChecks or LineChecks reaches the
\* summary with the queue empty, after exactly the invocations of a
\* complete run.
C10_ReachesSummary ==
    (/\ pc = "parse_args"
     /\ "version" \notin DOMAIN cli
     /\ \A i \in DOMAIN addons : addons[i].kind \in KnownKinds) ~> Completed

C10_Witness ==
    /\ Completed
    /\ Len(output) = MaxEmit
    /\ Len(calls) > MaxLines

====
